---- MODULE Spec2Model ----
(***************************************************************************)
(* Model of spb/cli_core/commands/label_data.py: the bulk-transfer         *)
(* orchestrator of spb-cli.  One behaviour is one invocation of one entry  *)
(* point: LabelData.upload_data, LabelData.upload_label, LabelData.download*)
(* or LabelData._print_error_table.                                        *)
(*                                                                         *)
(* Representation.                                                         *)
(*  - A Python dict is a sequence of [k, v] records with pairwise distinct *)
(*    keys, in insertion order (dicts iterate in insertion order).         *)
(*  - None is the empty tuple <<>>, a present value m is <<m>>.            *)
(*  - A label path is the sequence of its "."-separated segments, which is *)
(*    what label_path.split(".") yields; the data key is their join.       *)
(*  - A success ratio is kept in hundredths of a percent (100% = 10000),   *)
(*    the precision round(x, 2) keeps.                                     *)
(*  - An exception that leaves the entry point is pc = "raised" with its   *)
(*    class name in exc.                                                   *)
(*  - A worker takes a task (StartTask) and runs the task function from   *)
(*    one effect to the next: a step issues one remote call, takes its     *)
(*    answer, writes one file, stores one record or returns, so the steps  *)
(*    of the workers interleave between any two effects and the pool can   *)
(*    be terminated between them.  The shared dict is a Manager dict,      *)
(*    whose item assignments are serialised by the manager process.        *)
(*  - The environment (remote calls, files, the operator) is chosen anew   *)
(*    at every step that consults it.  The remote project is fixed by the  *)
(*    probe: its number of labels and the names of its datasets.           *)
(***************************************************************************)
EXTENDS Integers, Sequences, FiniteSets, Bags, TLC

VARIABLES
    cmd,            \* the entry point of this invocation
    include_label,  \* upload_data's include_label argument
    is_forced,      \* the is_forced argument
    imgs_path,      \* keys of recursive_glob_image_files(), in dict order
    labels_path,    \* recursive_glob_label_files(), in iteration order
    label_count,    \* download: the value _count_labels returned
    datasets,       \* download: the names of the remote project's datasets
    probe_failed,   \* download: whether the describe_label probe raised
    pc,             \* position of the orchestrator
    exc,            \* class of the exception that left the entry point
    prompted,       \* number of click.confirm prompts shown
    tasks,          \* status of each task handed to the current Pool
    work,           \* how far each of these tasks has got: the call it
                    \* waits for and what it has done so far
    data_results,   \* upload_data: the shared dict behind data_results
    label_results,  \* upload_data/upload_label: the shared dict of labels
    results,        \* download: the shared dict behind results
    faults,         \* number of work items the environment has failed
    failed,         \* what really failed: [data, label] sets of keys
    requested,      \* download: bag of the remote pages requested
    summary,        \* the summary lines printed, in order
    rpc,            \* position inside _print_error_table
    rp_data,        \* _print_error_table's data_results argument
    rp_label,       \* _print_error_table's label_results argument
    table,          \* _print_error_table's local dict `results`
    shown,          \* the rows added to a printed table, in order
    pages,          \* for each table printed, the number of its rows
    prompts,        \* number of "continue?" prompts shown
    aborted,        \* whether the operator pressed q or Q at a prompt
    logged,         \* whether the two log locations were printed
    confirmed,      \* what click.confirm returned: "none" while not asked
    refs,           \* the list zipped into the work list: for each task,
                    \* the identity of the dict object its element refers to
    stray,          \* the dict objects of that list other than element 0's
    calls,          \* remote calls issued and local files written so far
    done,           \* number of task invocations that ended, per function
    writers,        \* which task invocation wrote which key of a store
    last            \* the task invocation of the open pool that was the last
                    \* to have all its effects, and these effects

vars == <<cmd, include_label, is_forced, imgs_path, labels_path, label_count,
          datasets, probe_failed, pc, exc, prompted, tasks, work, data_results, label_results, results,
          faults, failed, requested, summary, rpc, rp_data, rp_label, table,
          shown, pages, prompts, aborted, logged, confirmed, refs, stray,
          calls, done, writers, last>>

orchVars == <<cmd, include_label, is_forced, imgs_path, labels_path>>
countVars == <<label_count, probe_failed, datasets>>
reportVars == <<rpc, rp_data, rp_label, table, shown, pages, prompts, aborted,
               logged>>
listVars == <<refs, stray>>
effectVars == <<calls, done, writers, last>>

----------------------------------------------------------------------------
(* Program constants *)

NUM_MULTI_PROCESS == 4
LABEL_DESCRIBE_PAGE_SIZE == 10
ERROR_TABLE_PAGE_SIZE == 10

(* Bounds of the model *)

MaxImgs == 5          \* image files discovered
MaxLabels == 2        \* label files discovered
MaxSidecars == 1      \* label files upload_data discovers with the images
MaxLabelCount == 2    \* labels of a remote project of less than one page
MaxFaults == 2        \* work items the environment fails in one invocation
MaxRows == 11         \* entries of a store handed to _print_error_table
MaxShared == 1        \* keys present in both stores handed to it

----------------------------------------------------------------------------
(* Python values *)

None == <<>>
Some(m) == <<m>>

EmptyDict == <<>>

DictKeys(d) == {d[i].k : i \in DOMAIN d}

DictHas(d, key) == \E i \in DOMAIN d : d[i].k = key

DictGet(d, key) == d[CHOOSE i \in DOMAIN d : d[i].k = key].v

\* d[key] = value
DictSet(d, key, value) ==
    IF DictHas(d, key)
    THEN [i \in DOMAIN d |-> IF d[i].k = key THEN [k |-> key, v |-> value] ELSE d[i]]
    ELSE Append(d, [k |-> key, v |-> value])

\* next(iter(d), None)
FirstKey(d) == IF Len(d) = 0 THEN None ELSE Some(d[1].k)

\* `not x` for x = next(iter(d), None): None and the empty string are falsy
Falsy(x) == x = None \/ x = Some("")

RECURSIVE JoinDot(_)
\* ".".join(segments)
JoinDot(segs) ==
    IF Len(segs) = 0 THEN ""
    ELSE IF Len(segs) = 1 THEN segs[1]
    ELSE segs[1] \o "." \o JoinDot(Tail(segs))

\* ".".join(label_path.split(".")[:-1])
DataKeyOf(label_path) ==
    JoinDot(SubSeq(label_path, 1, Len(label_path) - 1))

Min(a, b) == IF a < b THEN a ELSE b

----------------------------------------------------------------------------
(* _set_error_result *)

SetErrorResult(key, result, message) == DictSet(result, key, message)

----------------------------------------------------------------------------
(* The environment: discovery, the remote project, the operator.           *)

DatasetName == "ds"

FileNames == <<"a", "b", "c", "d", "e", "f", "g", "h">>

\* recursive_glob_image_files: a mapping keyed by data key; its first n keys
ImagePaths(n) == [i \in 1..n |-> FileNames[i] \o ".png"]

\* recursive_glob_label_files: the JSON sidecars of the images
LabelPaths(n) == [i \in 1..n |-> <<FileNames[i], "png", "json">>]

\* The dataset names of a remote project of `total` labels.  A project has
\* one dataset, or a second one, named like a folder of the first, that
\* holds the labels after the first LABEL_DESCRIBE_PAGE_SIZE.
RemoteDatasets(total) ==
    {<<DatasetName>>}
      \cup (IF total > LABEL_DESCRIBE_PAGE_SIZE
            THEN {<<DatasetName, DatasetName \o "/sub">>} ELSE {})

\* The i-th label of the remote project (i = 1, 2, ...).  In a project of
\* two datasets the data keys of the first lie in its folder "sub" and
\* those of the second start again at d1: (dataset, data_key) is pairwise
\* distinct in either project.
RemoteLabel(i) ==
    IF Len(datasets) = 1
    THEN [dataset  |-> datasets[1],
          data_key |-> IF i % 2 = 0 THEN "/d" \o ToString(i)
                       ELSE "d" \o ToString(i)]
    ELSE IF i <= LABEL_DESCRIBE_PAGE_SIZE
    THEN [dataset |-> datasets[1], data_key |-> "sub/d" \o ToString(i)]
    ELSE [dataset  |-> datasets[2],
          data_key |-> "d" \o ToString(i - LABEL_DESCRIBE_PAGE_SIZE)]

\* describe_label with page_size/page (1-based): the labels of that page
RemotePage(total, page_size, page) ==
    [j \in 1..(Min(page * page_size, total) - Min((page - 1) * page_size, total))
        |-> RemoteLabel((page - 1) * page_size + j)]

\* What the environment can do to one _update_label task.  A step that is
\* not reached has no outcome: its field keeps the value of LabelEnvOk.  The
\* steps after line 271 do not read the described data_key and dataset, so
\* their failures are chosen for a label that matches in both.
LabelEnvOk ==
    [exists   |-> TRUE,       \* os.path.isfile(label_path)
     describe |-> "label",    \* describe_label: "raise", "none" or "label"
     key_eq   |-> TRUE,       \* the described data_key equals the requested
     ds_eq    |-> TRUE,       \* the described dataset equals the requested
     build    |-> TRUE,       \* the payload can be built from the label
     local    |-> "value",    \* the local JSON: "unreadable", or its result
                              \* field is "absent", "null" or a "value"
     update   |-> TRUE,       \* update_label succeeds
     write    |-> TRUE]       \* the file can be rewritten

LabelEnvs ==
    {[LabelEnvOk EXCEPT !.exists = FALSE]}
        \cup {[LabelEnvOk EXCEPT !.describe = o] : o \in {"raise", "none"}}
        \cup {[LabelEnvOk EXCEPT !.key_eq = k, !.ds_eq = d] :
                 k \in BOOLEAN, d \in BOOLEAN}
        \cup {[LabelEnvOk EXCEPT !.build = FALSE]}
        \cup {[LabelEnvOk EXCEPT !.local = l] :
                 l \in {"unreadable", "absent", "null"}}
        \cup {[LabelEnvOk EXCEPT !.update = FALSE]}
        \cup {[LabelEnvOk EXCEPT !.write = FALSE]}

\* What the environment can do to one label of a downloaded page
LabelFaults == {"label", "data", "both", "mkdir"}

----------------------------------------------------------------------------
(* The task functions.  Each returns the shared dict as the task leaves it,*)
(* whether an exception left the task, and what really went wrong.         *)

\* _upload_asset with one retry of a failed create_data call, which fails
\* again
upload_asset_retrying(asset_image, result, create_ok) ==
    [raised |-> FALSE,
     result |-> IF create_ok
                THEN result
                ELSE SetErrorResult(asset_image.data_key, result, "create_data failed"),
     fault  |-> ~create_ok,
     creates |-> IF create_ok THEN 1 ELSE 2,
     set    |-> IF create_ok THEN {} ELSE {asset_image.data_key}]

\* _upload_asset
upload_asset(asset_image, result, create_ok) ==
    [raised |-> FALSE,
     result |-> IF create_ok
                THEN result
                ELSE SetErrorResult(asset_image.data_key, result, "create_data failed"),
     fault  |-> ~create_ok,
     creates |-> 1,
     set    |-> IF create_ok THEN {} ELSE {asset_image.data_key}]

\* line 271 with `or` in place of `and`
Mismatch_either(e) == ~e.key_eq \/ ~e.ds_eq

\* line 271: the described label does not match the requested one
Mismatch(e) == ~e.key_eq /\ ~e.ds_eq

\* line 287 without its test: a null result is sent like any other
ResultIsNone_unchecked(local) == FALSE

\* line 287: json_data['result'] is None, for a file that has the field
ResultIsNone(local) == local = "null"

\* _update_label
update_label(label_path, result, e) ==
    LET data_key == DataKeyOf(label_path)
        Out(raised, res, fault, d, u, w) ==
            [raised |-> raised, result |-> res, fault |-> fault,
             describes |-> d, updates |-> u, wrote |-> w, set |-> {}]
        Err(message, d, u) ==
            [Out(FALSE, SetErrorResult(data_key, result, message), TRUE, d, u, FALSE)
                EXCEPT !.set = {data_key}]
    IN  IF ~e.exists THEN Err("Label json file is not existed.", 0, 0)
        ELSE IF e.describe = "raise" THEN Err("describe_label failed", 1, 0)
        ELSE IF e.describe = "none" THEN Err("Label cannot be described.", 1, 0)
        ELSE IF Mismatch(e)
             THEN Err("Described label does not match to upload.", 1, 0)
        ELSE IF ~e.build THEN Out(TRUE, result, TRUE, 1, 0, FALSE)
        ELSE IF e.local = "unreadable" THEN Err("json.load failed", 1, 0)
        ELSE IF e.local = "absent" THEN Err("'result'", 1, 0)
        ELSE IF ResultIsNone(e.local) THEN Out(FALSE, result, FALSE, 1, 0, FALSE)
        ELSE IF ~e.update THEN Err("update_label failed", 1, 1)
        ELSE IF ~e.write THEN Err("write failed", 1, 1)
        ELSE Out(FALSE, result, FALSE, 1, 1, TRUE)

\* The error dict _download_worker builds for one label
DownloadError(outcome) ==
    [label |-> IF outcome \in {"label", "both"} THEN Some("label write failed") ELSE None,
     data  |-> IF outcome \in {"data", "both"} THEN Some("data fetch failed") ELSE None]

\* f'{label.dataset}/{label.data_key}'
DownloadKey(label) == label.dataset \o "/" \o label.data_key

\* line 217: the label file of one label is written in full
LabelFileWritten(outcome) == IF outcome \in {"label", "both"} THEN 0 ELSE 1

\* line 225: the data file of one label is written in full
DataFileWritten(outcome) == IF outcome \in {"data", "both"} THEN 0 ELSE 1

\* lines 217 and 225: the files of one label that are written in full
FilesWritten(outcome) == LabelFileWritten(outcome) + DataFileWritten(outcome)

\* the outcome of one label, from those of its label write and its data fetch
Outcome(label_outcome, data_ok) ==
    IF label_outcome = "ok"
    THEN (IF data_ok THEN "ok" ELSE "data")
    ELSE (IF data_ok THEN "label" ELSE "both")

\* lines 202-204: a _download_worker task that has done nothing yet; result
\* is the shared dict
DownloadStart(page_idx, result) ==
    [raised |-> FALSE, result |-> result, page |-> page_idx + 1,
     page_size |-> LABEL_DESCRIBE_PAGE_SIZE,
     label_failed |-> {}, data_failed |-> {},
     label_tried |-> {}, data_tried |-> {}, written |-> 0,
     set |-> {}]

\* lines 209-237: one turn of the for loop, for a label the environment
\* treats as o says ("ok" or a member of LabelFaults)
DownloadLabel(label, o, acc) ==
    LET key == DownloadKey(label)
    IN  IF o = "mkdir" THEN [acc EXCEPT !.raised = TRUE]
        ELSE LET tried == [acc EXCEPT
                             !.label_tried = @ \cup {key},
                             !.data_tried = @ \cup {key},
                             !.written = @ + FilesWritten(o)]
             IN  IF o = "ok" THEN tried
                 ELSE [tried EXCEPT
                         !.result = DictSet(@, key, DownloadError(o)),
                         !.set = @ \cup {key},
                         !.label_failed = IF o \in {"label", "both"} THEN @ \cup {key} ELSE @,
                         !.data_failed = IF o \in {"data", "both"} THEN @ \cup {key} ELSE @]

----------------------------------------------------------------------------
(* Arithmetic of the orchestrators *)

\* download, line 114: the number of pages for label_count labels
PageLength(count) ==
    IF count % LABEL_DESCRIBE_PAGE_SIZE = 0
    THEN count \div LABEL_DESCRIBE_PAGE_SIZE
    ELSE count \div LABEL_DESCRIBE_PAGE_SIZE + 1

\* round(success / total * 100, 2), in hundredths of a percent; None stands
\* for ZeroDivisionError.  round() rounds a tie to the even digit; the float
\* arithmetic gives the same result for every total below 160.
Percent(success, total) ==
    IF total = 0 THEN None
    ELSE LET q == (success * 10000) \div total
             r == (success * 10000) % total
         IN  IF 2 * r > total \/ (2 * r = total /\ q % 2 = 1)
             THEN Some(q + 1)
             ELSE Some(q)

Hundred == Some(10000)

SummaryLine(what, success, total, ratio, errors) ==
    [what |-> what, success |-> success, total |-> total,
     ratio |-> ratio[1], errors |-> errors]

\* upload_data, lines 64-66
UploadDataLine(n_assets, store) ==
    LET success_data_count == n_assets - Len(store)
        data_success_ratio ==
            IF Len(store) # 0 THEN Percent(success_data_count, n_assets) ELSE Hundred
    IN  IF data_success_ratio = None THEN None
        ELSE Some(SummaryLine("data", success_data_count, n_assets,
                              data_success_ratio, Len(store)))

\* upload_data, lines 69-71
UploadDataLabelLine(n_labels, store) ==
    LET success_label_count == n_labels - Len(store)
        label_success_ratio ==
            IF Len(store) # 0 THEN Percent(success_label_count, n_labels) ELSE Hundred
    IN  IF label_success_ratio = None THEN None
        ELSE Some(SummaryLine("labels", success_label_count, n_labels,
                              label_success_ratio, Len(store)))

\* upload_label, lines 90-92
UploadLabelLine(n_labels, store) ==
    LET success_label_count == n_labels - Len(store)
        success_label_ratio ==
            IF n_labels # 0 THEN Percent(success_label_count, n_labels) ELSE Hundred
    IN  IF success_label_ratio = None THEN None
        ELSE Some(SummaryLine("labels", success_label_count, n_labels,
                              success_label_ratio, Len(store)))

\* download, lines 137-140: one summary line, for labels or for data
DownloadLine(what, count, store) ==
    LET success_count == count - Len(store)
        ratio == Percent(success_count, count)
    IN  IF ratio = None THEN None
        ELSE Some(SummaryLine(what, success_count, count, ratio, Len(store)))

\* download, lines 124-131: the sub-errors of one kind, keyed as in results
SubErrors(store, kind) ==
    LET picked == SelectSeq(store, LAMBDA r :
                     IF kind = "data" THEN r.v.data # None ELSE r.v.label # None)
    IN  [i \in DOMAIN picked |->
            [k |-> picked[i].k,
             v |-> IF kind = "data" THEN picked[i].v.data[1] ELSE picked[i].v.label[1]]]

\* _count_labels, lines 96-108: probe is None when describe_label raises and
\* Some(total) otherwise; log_enabled says whether the root logger handles
\* WARNING, in which case the call of line 106, which passes the keyword
\* exec_info that Logger._log does not take, raises TypeError
CountLabels(probe, log_enabled) ==
    IF probe # None THEN [raised |-> FALSE, result |-> probe[1]]
    ELSE IF log_enabled THEN [raised |-> TRUE, result |-> 0]
    ELSE [raised |-> FALSE, result |-> 0]

\* The argument of _print_error_table: a dict, or None
DictArg(d) == [isdict |-> TRUE, d |-> d]
NoneArg == [isdict |-> FALSE, d |-> EmptyDict]

----------------------------------------------------------------------------
(* _print_error_table: its pure parts *)

RECURSIVE MergeLabels(_, _, _)
\* lines 152-157: fold the label dict, from its i-th entry on, into results
MergeLabels(acc, label, i) ==
    IF i > Len(label) THEN acc
    ELSE LET key == label[i].k
             row == IF DictHas(acc, key)
                    THEN [DictGet(acc, key) EXCEPT !.label = Some(label[i].v)]
                    ELSE [label |-> Some(label[i].v), data |-> None]
         IN  MergeLabels(DictSet(acc, key, row), label, i + 1)

\* lines 145-157 without the test of line 154: every label entry starts a row
\* of its own, which replaces the row the data entry of the same key made
MergeResults_overwriting(data_arg, label_arg) ==
    LET from_data ==
            IF data_arg.isdict
            THEN [i \in DOMAIN data_arg.d |->
                    [k |-> data_arg.d[i].k,
                     v |-> [data |-> Some(data_arg.d[i].v), label |-> None]]]
            ELSE EmptyDict
        F[i \in 0..Len(label_arg.d)] ==
            IF i = 0 THEN from_data
            ELSE DictSet(F[i - 1], label_arg.d[i].k,
                         [label |-> Some(label_arg.d[i].v), data |-> None])
    IN  IF label_arg.isdict THEN F[Len(label_arg.d)] ELSE from_data

\* lines 145-157: the merged table
MergeResults(data_arg, label_arg) ==
    LET from_data ==
            IF data_arg.isdict
            THEN [i \in DOMAIN data_arg.d |->
                    [k |-> data_arg.d[i].k,
                     v |-> [data |-> Some(data_arg.d[i].v), label |-> None]]]
            ELSE EmptyDict
    IN  IF label_arg.isdict THEN MergeLabels(from_data, label_arg.d, 1) ELSE from_data

RECURSIVE RenderRows(_, _, _)
\* lines 172-186: move up to n rows from the head of the table to the page
RenderRows(t, n, acc) ==
    IF n = 0 \/ Falsy(FirstKey(t)) THEN [rows |-> acc, rest |-> t]
    ELSE RenderRows(Tail(t), n - 1, Append(acc, t[1]))

\* line 159 and line 188: `not next(iter(results), None)`
NothingLeft(t) == Falsy(FirstKey(t))

\* line 194
IsQuit(key) == key = "q" \/ key = "Q"

----------------------------------------------------------------------------
(* The confirmation, the shared list and the record of what was done *)

\* lines 30-32, 78-80, 115-117 with the answer of click.confirm ignored
Declined_ignored(forced, answer) == FALSE

\* lines 30-32, 78-80, 115-117: `if not is_forced: if not click.confirm(..):
\* return`
Declined(forced, answer) == ~forced /\ ~answer

\* what click.confirm returned, "none" when it was not called
Answer(forced, answer) ==
    IF forced THEN "none" ELSE IF answer THEN "yes" ELSE "no"

\* manager.list([manager.dict()] * n): the one dict manager.dict() made is
\* repeated n times, so every element is a proxy of dict object 1
ManagerList(n) == [i \in 1..n |-> 1]

\* the dict objects of the list other than element 0's, all empty
StrayOf(list) ==
    [id \in ({list[i] : i \in DOMAIN list} \ {list[1]}) |-> EmptyDict]

\* the dict the task of index i is handed, given the dict of element 0
Target(store, i) == IF refs[i] = refs[1] THEN store ELSE stray[refs[i]]

NoCalls == [create_data |-> 0, describe_label |-> 0, update_label |-> 0,
            written |-> 0]

NoTask == [kind |-> "none"]

----------------------------------------------------------------------------
(* Initial states: one per entry point and argument list *)

\* The two stores handed to _print_error_table when it is entered directly:
\* nd data entries and nl label entries of which `shared` have the key of a
\* data entry; the `empty`-th key of the merged order is the empty string
RowKey(i, empty) == IF i = empty THEN "" ELSE "f" \o ToString(i)

DataStore(nd, empty) ==
    [i \in 1..nd |-> [k |-> RowKey(i, empty), v |-> "data " \o ToString(i)]]

LabelStore(nd, nl, shared, empty) ==
    [j \in 1..nl |-> [k |-> RowKey(nd - shared + j, empty),
                      v |-> "label " \o ToString(nd - shared + j)]]

InitIdle ==
    /\ label_count = 0
    /\ datasets = <<DatasetName>>
    /\ probe_failed = FALSE
    /\ exc = "none"
    /\ prompted = 0
    /\ tasks = <<>>
    /\ work = <<>>
    /\ data_results = EmptyDict
    /\ label_results = EmptyDict
    /\ results = EmptyDict
    /\ faults = 0
    /\ failed = [data |-> {}, label |-> {}]
    /\ requested = EmptyBag
    /\ summary = <<>>
    /\ table = EmptyDict
    /\ shown = <<>>
    /\ pages = <<>>
    /\ prompts = 0
    /\ aborted = FALSE
    /\ logged = FALSE
    /\ confirmed = "none"
    /\ refs = <<>>
    /\ stray = <<>>
    /\ calls = NoCalls
    /\ done = [asset |-> 0, label |-> 0, page |-> 0]
    /\ writers = {}
    /\ last = NoTask

InitUploadData ==
    /\ cmd = "upload_data"
    /\ include_label \in BOOLEAN
    /\ is_forced \in BOOLEAN
    /\ \E n \in 0..MaxImgs : imgs_path = ImagePaths(n)
    /\ \E n \in 0..MaxSidecars : labels_path = LabelPaths(IF include_label THEN n ELSE 0)

InitUploadLabel ==
    /\ cmd = "upload_label"
    /\ include_label = FALSE
    /\ is_forced \in BOOLEAN
    /\ imgs_path = <<>>
    /\ \E n \in 0..MaxLabels : labels_path = LabelPaths(n)

InitDownload ==
    /\ cmd = "download"
    /\ include_label = FALSE
    /\ is_forced \in BOOLEAN
    /\ imgs_path = <<>>
    /\ labels_path = <<>>

InitCommand ==
    /\ InitUploadData \/ InitUploadLabel \/ InitDownload
    /\ pc = "start"
    /\ rpc = "idle"
    /\ rp_data = NoneArg
    /\ rp_label = NoneArg
    /\ InitIdle

InitPrintErrorTable ==
    /\ cmd = "print_error_table"
    /\ include_label = FALSE
    /\ is_forced = FALSE
    /\ imgs_path = <<>>
    /\ labels_path = <<>>
    /\ pc = "report"
    /\ rpc = "call"
    /\ \E nd \in 0..MaxRows, nl \in 0..MaxRows :
         \E shared \in 0..Min(MaxShared, Min(nd, nl)) :
           \E empty \in 0..(nd + nl - shared) :
             /\ rp_data \in {DictArg(DataStore(nd, empty))}
                              \cup (IF nd = 0 THEN {NoneArg} ELSE {})
             /\ rp_label \in {DictArg(LabelStore(nd, nl, shared, empty))}
                              \cup (IF nl = 0 THEN {NoneArg} ELSE {})
    /\ InitIdle

Init == InitCommand \/ InitPrintErrorTable

----------------------------------------------------------------------------
(* The worker pool: Pool(NUM_MULTI_PROCESS) and p.imap over the work list   *)

PoolPcs == {"data_pool", "label_pool", "download_pool"}

Queued(n) == [i \in 1..n |-> "queued"]

\* how far each task of the pool has got: none has been taken
Waiting(n) == [i \in 1..n |-> [at |-> "queued"]]

\* a task that has ended
Ended == [at |-> "ended"]

InFlight == Cardinality({i \in DOMAIN tasks : tasks[i] = "running"})

\* the pool left as soon as some result has arrived
SomeReturned == \E i \in DOMAIN tasks : tasks[i] = "returned"

AllReturned == \A i \in DOMAIN tasks : tasks[i] = "returned"

\* the asset_image dict of lines 38-43
AssetImage(key) ==
    [file |-> key, file_name |-> key, data_key |-> key, dataset |-> DatasetName]

\* What no step of a task changes
orchestratorVars == <<orchVars, countVars, pc, exc, prompted, summary,
                     reportVars, confirmed, refs>>

\* A free worker takes the next task of the queue
StartTask ==
    /\ pc \in PoolPcs
    /\ InFlight < NUM_MULTI_PROCESS
    /\ \E i \in DOMAIN tasks :
         /\ tasks[i] = "queued"
         /\ \A j \in 1..(i - 1) : tasks[j] # "queued"
         /\ tasks' = [tasks EXCEPT ![i] = "running"]
         /\ work' = [work EXCEPT ![i] = [at |-> "start"]]
    /\ UNCHANGED <<orchestratorVars, data_results, label_results, results,
                   stray, faults, failed, requested, effectVars>>

\* _upload_asset, lines 241-246: the create_data call is issued and the
\* worker waits for its answer
UploadAssetCall ==
    /\ pc = "data_pool"
    /\ \E i \in DOMAIN tasks :
         /\ tasks[i] = "running" /\ work[i].at = "start"
         /\ work' = [work EXCEPT ![i] = [at |-> "create_data"]]
    /\ calls' = [calls EXCEPT !.create_data = @ + 1]
    /\ UNCHANGED <<orchestratorVars, tasks, data_results, label_results, results,
                   stray, faults, failed, requested, done, writers, last>>

\* The task of index i ends, by returning or by raising: its result reaches
\* the orchestrator
TaskEnds(i, what, raised) ==
    /\ tasks' = [tasks EXCEPT ![i] = IF raised THEN "raised" ELSE "returned"]
    /\ work' = [work EXCEPT ![i] = Ended]
    /\ done' = [done EXCEPT ![what] = @ + 1]

\* The task of index i has had its last effect, the record stored by
\* _set_error_result (line 302) or the file rewritten (lines 296-297), and
\* has still to write its log line and to return
TaskFinishes(i, at) ==
    /\ work' = [work EXCEPT ![i] = [at |-> at]]
    /\ UNCHANGED <<tasks, done>>

\* _upload_asset, lines 246-248: create_data returns and the task ends, or
\* it raises and the handler stores the record
UploadAssetTask ==
    /\ pc = "data_pool"
    /\ \E i \in DOMAIN tasks, create_ok \in BOOLEAN :
         /\ tasks[i] = "running" /\ work[i].at = "create_data"
         /\ create_ok \/ faults < MaxFaults
         /\ LET shared == refs[i] = refs[1]
                target == Target(data_results, i)
            IN  \E r \in {upload_asset(AssetImage(imgs_path[i]), target, create_ok)} :
                /\ data_results' = IF shared THEN r.result ELSE data_results
                /\ stray' = IF shared THEN stray
                            ELSE [stray EXCEPT ![refs[i]] = r.result]
                /\ faults' = IF r.fault THEN faults + 1 ELSE faults
                /\ failed' = IF r.fault
                             THEN [failed EXCEPT !.data = @ \cup {imgs_path[i]}]
                             ELSE failed
                /\ calls' = [calls EXCEPT !.create_data = @ + r.creates - 1]
                /\ writers' = writers \cup {<<"data", k, i>> : k \in r.set}
                /\ last' = [kind |-> "asset", item |-> i,
                            key |-> AssetImage(imgs_path[i]).data_key,
                            env |-> create_ok, before |-> target,
                            after |-> r.result, raised |-> r.raised,
                            set |-> r.set, creates |-> r.creates]
                /\ IF r.set = {}
                   THEN TaskEnds(i, "asset", r.raised)
                   ELSE TaskFinishes(i, "set_error_result")
    /\ UNCHANGED <<orchestratorVars, label_results, results, requested>>

\* _upload_asset, lines 248-249: the log line of _set_error_result is
\* written and the task returns
UploadAssetReturns ==
    /\ pc = "data_pool"
    /\ \E i \in DOMAIN tasks :
         /\ tasks[i] = "running" /\ work[i].at = "set_error_result"
         /\ TaskEnds(i, "asset", FALSE)
    /\ UNCHANGED <<orchestratorVars, data_results, label_results, results, stray,
                   faults, failed, requested, calls, writers, last>>

\* The calls _update_label has issued when it waits at `at`
Issued(at) ==
    [describes |-> IF at \in {"describe_label", "update_label"} THEN 1 ELSE 0,
     updates   |-> IF at = "update_label" THEN 1 ELSE 0]

\* The _update_label task of index i issues `call` and waits for its answer;
\* e is what the environment has done to the task so far
UpdateLabelWaits(i, e, call) ==
    /\ work' = [work EXCEPT ![i] = [at |-> call, env |-> e]]
    /\ calls' = [calls EXCEPT ![call] = @ + 1]
    /\ UNCHANGED <<tasks, label_results, stray, faults, failed, done, writers,
                   last>>

\* The _update_label task of index i, which waits at work[i].at, runs to the
\* end of the function; e is what the environment did to it and
\* r = update_label(..) what it did.  After a record or a file write the
\* task has still to return.
UpdateLabelEnds(i, e, r) ==
    LET shared == refs[i] = refs[1]
        issued == Issued(work[i].at)
    IN  /\ ~r.fault \/ faults < MaxFaults
        /\ label_results' = IF shared THEN r.result ELSE label_results
        /\ stray' = IF shared THEN stray
                    ELSE [stray EXCEPT ![refs[i]] = r.result]
        /\ faults' = IF r.fault THEN faults + 1 ELSE faults
        /\ failed' = IF r.fault
                     THEN [failed EXCEPT !.label = @ \cup {DataKeyOf(labels_path[i])}]
                     ELSE failed
        /\ calls' = [calls EXCEPT
                        !.describe_label = @ + r.describes - issued.describes,
                        !.update_label = @ + r.updates - issued.updates,
                        !.written = @ + (IF r.wrote THEN 1 ELSE 0)]
        /\ writers' = writers \cup {<<"label", k, i>> : k \in r.set}
        /\ last' = [kind |-> "label", item |-> i,
                    key |-> DataKeyOf(labels_path[i]),
                    env |-> e, before |-> Target(label_results, i),
                    after |-> r.result, raised |-> r.raised,
                    set |-> r.set, describes |-> r.describes,
                    updates |-> r.updates, wrote |-> r.wrote]
        /\ IF r.wrote THEN TaskFinishes(i, "written")
           ELSE IF r.set # {} THEN TaskFinishes(i, "set_error_result")
           ELSE TaskEnds(i, "label", r.raised)

\* _update_label, lines 253-266: without the file its record is stored, with
\* it the describe_label call is issued
UpdateLabelBegin ==
    /\ pc = "label_pool"
    /\ \E i \in DOMAIN tasks, exists \in BOOLEAN :
         /\ tasks[i] = "running" /\ work[i].at = "start"
         /\ \E e \in {[LabelEnvOk EXCEPT !.exists = exists]} :
              \E r \in {update_label(labels_path[i], Target(label_results, i), e)} :
                 IF r.describes = 0
                 THEN UpdateLabelEnds(i, e, r)
                 ELSE UpdateLabelWaits(i, e, "describe_label")
    /\ UNCHANGED <<orchestratorVars, data_results, results, requested>>

\* _update_label, lines 266-295: describe_label returns or raises; a record
\* is stored, the task returns or raises, or it gets as far as the
\* update_label call and issues it
UpdateLabelDescribed ==
    /\ pc = "label_pool"
    /\ \E i \in DOMAIN tasks :
         /\ tasks[i] = "running" /\ work[i].at = "describe_label"
         /\ \E e \in {x \in LabelEnvs : x.exists /\ x.update /\ x.write} :
              \E r \in {update_label(labels_path[i], Target(label_results, i), e)} :
                 IF r.updates = 0
                 THEN UpdateLabelEnds(i, e, r)
                 ELSE UpdateLabelWaits(i, e, "update_label")
    /\ UNCHANGED <<orchestratorVars, data_results, results, requested>>

\* _update_label, lines 295-299: update_label returns and the file is
\* rewritten, or one of the two fails and its record is stored
UpdateLabelTask ==
    /\ pc = "label_pool"
    /\ \E i \in DOMAIN tasks, update \in BOOLEAN, write \in BOOLEAN :
         /\ tasks[i] = "running" /\ work[i].at = "update_label"
         /\ update \/ write
         /\ \E e \in {[work[i].env EXCEPT !.update = update, !.write = write]} :
              \E r \in {update_label(labels_path[i], Target(label_results, i), e)} :
                 UpdateLabelEnds(i, e, r)
    /\ UNCHANGED <<orchestratorVars, data_results, results, requested>>

\* _update_label after its last effect: the log line of _set_error_result
\* (line 303) is written, or the with block of line 296 is left, and the
\* task returns
UpdateLabelReturns ==
    /\ pc = "label_pool"
    /\ \E i \in DOMAIN tasks :
         /\ tasks[i] = "running" /\ work[i].at \in {"set_error_result", "written"}
         /\ TaskEnds(i, "label", FALSE)
    /\ UNCHANGED <<orchestratorVars, data_results, label_results, results, stray,
                   faults, failed, requested, calls, writers, last>>

\* The shared dict of the page task of index i becomes `store`
PutStore(i, store) ==
    IF refs[i] = refs[1]
    THEN results' = store /\ UNCHANGED stray
    ELSE stray' = [stray EXCEPT ![refs[i]] = store] /\ UNCHANGED results

\* The _download_worker task of index i ends, by returning or by raising;
\* acc is what it did and fl the items failed so far
PageEnds(i, fetch_ok, acc, fl) ==
    LET labels == RemotePage(label_count, LABEL_DESCRIBE_PAGE_SIZE, i)
    IN  /\ faults' = fl
        /\ UNCHANGED calls
        /\ TaskEnds(i, "page", acc.raised)
        /\ last' = [kind |-> "page", item |-> i,
                    keys |-> IF fetch_ok
                             THEN [j \in DOMAIN labels |-> DownloadKey(labels[j])]
                             ELSE <<>>,
                    env |-> [fetch_ok |-> fetch_ok],
                    after |-> Target(results, i),
                    raised |-> acc.raised, set |-> acc.set,
                    label_tried |-> acc.label_tried,
                    data_tried |-> acc.data_tried,
                    label_failed |-> acc.label_failed,
                    data_failed |-> acc.data_failed]

\* lines 208-224 for the j-th label of the page: the directory is made, the
\* label file is written and the data is requested, for which the worker
\* waits; after the last label the task returns
PageGoesOn(i, j, acc) ==
    LET labels == RemotePage(label_count, LABEL_DESCRIBE_PAGE_SIZE, i)
    IN  IF j > Len(labels)
        THEN PageEnds(i, TRUE, acc, faults)
        ELSE \E o \in {"ok", "label", "mkdir"} :
               /\ o = "ok" \/ faults < MaxFaults
               /\ IF o = "mkdir"
                  THEN PageEnds(i, TRUE, DownloadLabel(labels[j], o, acc), faults + 1)
                  ELSE /\ work' = [work EXCEPT ![i] =
                                     [at |-> "get", j |-> j, outcome |-> o,
                                      acc |-> acc]]
                       /\ faults' = IF o = "ok" THEN faults ELSE faults + 1
                       /\ calls' = [calls EXCEPT !.written = @ + LabelFileWritten(o)]
                       /\ UNCHANGED <<tasks, done, last>>

\* lines 230-231 for the j-th label of the page, whose writes ended as o
\* says: its record is stored, and the log lines are still to be written
PageStores(i, j, o, acc, fl) ==
    LET labels == RemotePage(label_count, LABEL_DESCRIBE_PAGE_SIZE, i)
    IN  \E r \in {DownloadLabel(labels[j], o,
                                [acc EXCEPT !.result = Target(results, i)])} :
          /\ PutStore(i, r.result)
          /\ failed' = [data  |-> failed.data \cup r.data_failed,
                        label |-> failed.label \cup r.label_failed]
          /\ writers' = writers \cup {<<"results", k, i>> : k \in r.set}
          /\ work' = [work EXCEPT ![i] =
                        [at |-> "set_error_result", j |-> j,
                         acc |-> [r EXCEPT !.result = EmptyDict]]]
          /\ faults' = fl
          /\ UNCHANGED <<tasks, done, last, calls>>

\* _download_worker, lines 203-207: the page is requested and the worker
\* waits for it
DownloadWorkerFetch ==
    /\ pc = "download_pool"
    /\ \E i \in DOMAIN tasks :
         /\ tasks[i] = "running" /\ work[i].at = "start"
         /\ work' = [work EXCEPT ![i] = [at |-> "describe_label"]]
         /\ requested' = requested (+) SetToBag({DownloadStart(i - 1, EmptyDict).page})
    /\ calls' = [calls EXCEPT !.describe_label = @ + 1]
    /\ UNCHANGED <<orchestratorVars, tasks, data_results, label_results, results,
                   stray, faults, failed, done, writers, last>>

\* _download_worker, lines 205-224: the page arrives and its first label is
\* begun, or the call raises and so does the task
DownloadWorkerPage ==
    /\ pc = "download_pool"
    /\ \E i \in DOMAIN tasks, fetch_ok \in BOOLEAN :
         /\ tasks[i] = "running" /\ work[i].at = "describe_label"
         /\ fetch_ok \/ faults < MaxFaults
         /\ \E start \in {DownloadStart(i - 1, EmptyDict)} :
              IF fetch_ok
              THEN PageGoesOn(i, 1, start)
              ELSE PageEnds(i, FALSE, [start EXCEPT !.raised = TRUE], faults + 1)
    /\ UNCHANGED <<orchestratorVars, data_results, label_results, results, stray,
                   failed, requested, writers>>

\* _download_worker, lines 224-231: the data arrives and its file is
\* written, or the request or the write fails and the record of the label
\* is stored
DownloadWorkerData ==
    /\ pc = "download_pool"
    /\ \E i \in DOMAIN tasks, data_ok \in BOOLEAN :
         /\ tasks[i] = "running" /\ work[i].at = "get"
         /\ data_ok \/ work[i].outcome # "ok" \/ faults < MaxFaults
         /\ LET w == work[i]
                o == Outcome(w.outcome, data_ok)
            IN  IF data_ok
                THEN /\ work' = [work EXCEPT ![i] =
                                   [at |-> "written", j |-> w.j, outcome |-> o,
                                    acc |-> w.acc]]
                     /\ calls' = [calls EXCEPT !.written = @ + DataFileWritten(o)]
                     /\ UNCHANGED <<tasks, results, stray, faults, failed, done,
                                    writers, last>>
                ELSE PageStores(i, w.j, o, w.acc,
                                IF w.outcome = "ok" THEN faults + 1 ELSE faults)
    /\ UNCHANGED <<orchestratorVars, data_results, label_results, requested>>

\* _download_worker, lines 225-231 and 208-224: after the data file the
\* record of a label whose label file failed is stored; with no error the
\* next label is begun, or the task returns
DownloadWorkerTask ==
    /\ pc = "download_pool"
    /\ \E i \in DOMAIN tasks :
         /\ tasks[i] = "running" /\ work[i].at = "written"
         /\ LET w == work[i]
                labels == RemotePage(label_count, LABEL_DESCRIBE_PAGE_SIZE, i)
            IN  IF w.outcome = "ok"
                THEN /\ PageGoesOn(i, w.j + 1, DownloadLabel(labels[w.j], "ok", w.acc))
                     /\ UNCHANGED <<results, stray, failed, writers>>
                ELSE PageStores(i, w.j, w.outcome, w.acc, faults)
    /\ UNCHANGED <<orchestratorVars, data_results, label_results, requested>>

\* _download_worker, lines 232-237 and 208-224: the log lines of
\* _set_error_result are written and the next label is begun, or the task
\* returns
DownloadWorkerLogged ==
    /\ pc = "download_pool"
    /\ \E i \in DOMAIN tasks :
         /\ tasks[i] = "running" /\ work[i].at = "set_error_result"
         /\ PageGoesOn(i, work[i].j + 1, work[i].acc)
    /\ UNCHANGED <<orchestratorVars, data_results, label_results, results, stray,
                   failed, requested, writers>>

\* list(tqdm.tqdm(p.imap(...))) returns: every task has returned
PoolJoin ==
    /\ pc \in PoolPcs
    /\ AllReturned
    /\ pc' = CASE pc = "data_pool" -> "data_done"
               [] pc = "label_pool" -> "summary"
               [] pc = "download_pool" -> "summary"
    /\ last' = NoTask
    /\ UNCHANGED <<orchVars, countVars, exc, prompted, tasks, work, data_results,
                   label_results, results, faults, failed, requested, summary,
                   reportVars, confirmed, listVars, calls, done, writers>>

\* list(tqdm.tqdm(p.imap(...))) reaches, in task order, the result of a task
\* that raised: the exception is raised again in the orchestrator, the with
\* block terminates the pool and the exception leaves the entry point
PoolRaise ==
    /\ pc \in PoolPcs
    /\ \E i \in DOMAIN tasks :
         /\ tasks[i] = "raised"
         /\ \A j \in 1..(i - 1) : tasks[j] = "returned"
    /\ pc' = "raised"
    /\ exc' = "task exception"
    /\ last' = NoTask
    /\ UNCHANGED <<orchVars, countVars, prompted, tasks, work, data_results,
                   label_results, results, faults, failed, requested, summary,
                   reportVars, confirmed, listVars, calls, done, writers>>

----------------------------------------------------------------------------
(* LabelData.upload_data *)

\* lines 29-50: the confirmation, then the asset batch is handed to the pool
UploadDataBegin ==
    /\ cmd = "upload_data" /\ pc = "start"
    /\ \E answer \in BOOLEAN :
         /\ prompted' = IF is_forced THEN prompted ELSE prompted + 1
         /\ confirmed' = Answer(is_forced, answer)
         /\ IF Declined(is_forced, answer)
            THEN /\ pc' = "returned"
                 /\ UNCHANGED <<tasks, work, listVars>>
            ELSE IF Len(imgs_path) # 0
            THEN /\ tasks' = Queued(Len(imgs_path))
                 /\ work' = Waiting(Len(imgs_path))
                 /\ refs' = ManagerList(Len(imgs_path))
                 /\ stray' = StrayOf(ManagerList(Len(imgs_path)))
                 /\ pc' = "data_pool"
            ELSE /\ pc' = "data_done"
                 /\ UNCHANGED <<tasks, work, listVars>>
    /\ data_results' = EmptyDict
    /\ UNCHANGED <<orchVars, countVars, exc, label_results, results, faults,
                   failed, requested, summary, reportVars, effectVars>>

\* lines 52-61: the label batch is handed to the pool
UploadDataLabels ==
    /\ cmd = "upload_data" /\ pc = "data_done"
    /\ IF include_label /\ Len(labels_path) # 0
       THEN /\ tasks' = Queued(Len(labels_path))
            /\ work' = Waiting(Len(labels_path))
            /\ refs' = ManagerList(Len(labels_path))
            /\ stray' = StrayOf(ManagerList(Len(labels_path)))
            /\ pc' = "label_pool"
       ELSE /\ pc' = "summary"
            /\ UNCHANGED <<tasks, work, listVars>>
    /\ label_results' = EmptyDict
    /\ UNCHANGED <<orchVars, countVars, exc, prompted, data_results, results,
                   faults, failed, requested, summary, reportVars, confirmed,
                   effectVars>>

\* lines 63-74: the summary, then _print_error_table is entered
UploadDataSummary ==
    /\ cmd = "upload_data" /\ pc = "summary"
    /\ LET data_line == UploadDataLine(Len(imgs_path), data_results)
           label_line == UploadDataLabelLine(Len(labels_path), label_results)
       IN  IF data_line = None
           THEN /\ pc' = "raised" /\ exc' = "ZeroDivisionError"
                /\ UNCHANGED <<summary, reportVars>>
           ELSE IF include_label /\ label_line = None
           THEN /\ pc' = "raised" /\ exc' = "ZeroDivisionError"
                /\ summary' = summary \o data_line
                /\ UNCHANGED reportVars
           ELSE /\ pc' = "report" /\ UNCHANGED exc
                /\ summary' = summary \o data_line
                                \o (IF include_label THEN label_line ELSE <<>>)
                /\ rpc' = "call"
                /\ rp_data' = DictArg(data_results)
                /\ rp_label' = IF include_label THEN DictArg(label_results) ELSE NoneArg
                /\ UNCHANGED <<table, shown, pages, prompts, aborted, logged>>
    /\ UNCHANGED <<orchVars, countVars, prompted, tasks, work, data_results,
                   label_results, results, faults, failed, requested,
                   confirmed, listVars, effectVars>>

----------------------------------------------------------------------------
(* LabelData.upload_label *)

\* lines 77-87
UploadLabelBegin ==
    /\ cmd = "upload_label" /\ pc = "start"
    /\ \E answer \in BOOLEAN :
         /\ prompted' = IF is_forced THEN prompted ELSE prompted + 1
         /\ confirmed' = Answer(is_forced, answer)
         /\ IF Declined(is_forced, answer)
            THEN /\ pc' = "returned"
                 /\ UNCHANGED <<tasks, work, listVars>>
            ELSE IF Len(labels_path) # 0
            THEN /\ tasks' = Queued(Len(labels_path))
                 /\ work' = Waiting(Len(labels_path))
                 /\ refs' = ManagerList(Len(labels_path))
                 /\ stray' = StrayOf(ManagerList(Len(labels_path)))
                 /\ pc' = "label_pool"
            ELSE /\ pc' = "summary"
                 /\ UNCHANGED <<tasks, work, listVars>>
    /\ label_results' = EmptyDict
    /\ UNCHANGED <<orchVars, countVars, exc, data_results, results, faults,
                   failed, requested, summary, reportVars, effectVars>>

\* lines 89-93
UploadLabelSummary ==
    /\ cmd = "upload_label" /\ pc = "summary"
    /\ LET label_line == UploadLabelLine(Len(labels_path), label_results)
       IN  IF label_line = None
           THEN /\ pc' = "raised" /\ exc' = "ZeroDivisionError"
                /\ UNCHANGED <<summary, reportVars>>
           ELSE /\ pc' = "report" /\ UNCHANGED exc
                /\ summary' = summary \o label_line
                /\ rpc' = "call"
                /\ rp_data' = NoneArg
                /\ rp_label' = DictArg(label_results)
                /\ UNCHANGED <<table, shown, pages, prompts, aborted, logged>>
    /\ UNCHANGED <<orchVars, countVars, prompted, tasks, work, data_results,
                   label_results, results, faults, failed, requested,
                   confirmed, listVars, effectVars>>

----------------------------------------------------------------------------
(* LabelData.download *)

\* The totals the probe of line 99 reports: projects of less than one page,
\* of exactly one page and of one page and one label
RemoteTotals ==
    (0..MaxLabelCount) \cup {LABEL_DESCRIBE_PAGE_SIZE, LABEL_DESCRIBE_PAGE_SIZE + 1}

\* line 112: label_count = self._count_labels(project.id)
DownloadCountLabels ==
    /\ cmd = "download" /\ pc = "start"
    /\ \E probe \in {None} \cup {Some(n) : n \in RemoteTotals},
          log_enabled \in BOOLEAN :
         LET r == CountLabels(probe, log_enabled)
         IN  /\ probe_failed' = (probe = None)
             /\ IF r.raised
                THEN /\ pc' = "raised" /\ exc' = "TypeError"
                     /\ UNCHANGED <<label_count, datasets>>
                ELSE /\ pc' = "counted" /\ UNCHANGED exc
                     /\ label_count' = r.result
                     /\ datasets' \in RemoteDatasets(r.result)
    /\ calls' = [calls EXCEPT !.describe_label = @ + 1]
    /\ UNCHANGED <<orchVars, prompted, tasks, work, data_results, label_results,
                   results, faults, failed, requested, summary, reportVars,
                   confirmed, listVars, done, writers, last>>

\* lines 113-121 and 132-134
DownloadBegin ==
    /\ cmd = "download" /\ pc = "counted"
    /\ IF label_count # 0
       THEN \E answer \in BOOLEAN :
              /\ prompted' = IF is_forced THEN prompted ELSE prompted + 1
              /\ confirmed' = Answer(is_forced, answer)
              /\ IF Declined(is_forced, answer)
                 THEN /\ pc' = "returned"
                      /\ UNCHANGED <<tasks, work, listVars>>
                 ELSE /\ tasks' = Queued(PageLength(label_count))
                      /\ work' = Waiting(PageLength(label_count))
                      /\ refs' = ManagerList(PageLength(label_count))
                      /\ stray' = StrayOf(ManagerList(PageLength(label_count)))
                      /\ pc' = "download_pool"
       ELSE /\ pc' = "summary"
            /\ UNCHANGED <<prompted, tasks, work, confirmed, listVars>>
    /\ results' = EmptyDict
    /\ UNCHANGED <<orchVars, countVars, exc, data_results, label_results,
                   faults, failed, requested, summary, reportVars, effectVars>>

\* lines 123-142: the two stores are split off results, the summary is
\* printed and _print_error_table is entered
DownloadSummary ==
    /\ cmd = "download" /\ pc = "summary"
    /\ LET label_store == IF label_count # 0 THEN SubErrors(results, "label") ELSE EmptyDict
           data_store == IF label_count # 0 THEN SubErrors(results, "data") ELSE EmptyDict
           label_line == DownloadLine("labels", label_count, label_store)
           data_line == DownloadLine("data", label_count, data_store)
       IN  IF label_line = None
           THEN /\ pc' = "raised" /\ exc' = "ZeroDivisionError"
                /\ UNCHANGED <<summary, reportVars>>
           ELSE IF data_line = None
           THEN /\ pc' = "raised" /\ exc' = "ZeroDivisionError"
                /\ summary' = summary \o label_line
                /\ UNCHANGED reportVars
           ELSE /\ pc' = "report" /\ UNCHANGED exc
                /\ summary' = summary \o label_line \o data_line
                /\ rpc' = "call"
                /\ rp_data' = DictArg(data_store)
                /\ rp_label' = DictArg(label_store)
                /\ UNCHANGED <<table, shown, pages, prompts, aborted, logged>>
    /\ UNCHANGED <<orchVars, countVars, prompted, tasks, work, data_results,
                   label_results, results, faults, failed, requested,
                   confirmed, listVars, effectVars>>

----------------------------------------------------------------------------
(* LabelData._print_error_table *)

\* lines 145-161: the merge, and the return when nothing is to be shown
PrintErrorTableEnter ==
    /\ rpc = "call"
    /\ LET merged == MergeResults(rp_data, rp_label)
       IN  /\ table' = merged
           /\ IF NothingLeft(merged)
              THEN rpc' = "done" /\ pc' = "done"
              ELSE rpc' = "page" /\ UNCHANGED pc
    /\ UNCHANGED <<orchVars, countVars, exc, prompted, tasks, work, data_results,
                   label_results, results, faults, failed, requested, summary,
                   rp_data, rp_label, shown, pages, prompts, aborted, logged,
                   confirmed, listVars, effectVars>>

\* lines 165-191, and 196-198 when the loop is left: one table is filled
\* and printed, then the prompt is shown or the log locations are printed.
\* The counters page and page_length of lines 162-163 only feed the text of
\* the prompt.
RenderPage ==
    /\ rpc = "page"
    /\ LET r == RenderRows(table, ERROR_TABLE_PAGE_SIZE, <<>>)
       IN  /\ table' = r.rest
           /\ shown' = shown \o r.rows
           /\ pages' = Append(pages, Len(r.rows))
           /\ IF NothingLeft(r.rest)
              THEN /\ rpc' = "done" /\ pc' = "done"
                   /\ logged' = TRUE
                   /\ UNCHANGED prompts
              ELSE /\ rpc' = "prompt"
                   /\ prompts' = prompts + 1
                   /\ UNCHANGED <<pc, logged>>
    /\ UNCHANGED <<orchVars, countVars, exc, prompted, tasks, work, data_results,
                   label_results, results, faults, failed, requested, summary,
                   rp_data, rp_label, aborted, confirmed, listVars, effectVars>>

\* lines 192-198: the operator's key
Prompt ==
    /\ rpc = "prompt"
    /\ \E key \in {"q", "Q", "n"} :
         IF IsQuit(key)
         THEN /\ rpc' = "done" /\ pc' = "done"
              /\ aborted' = TRUE
              /\ logged' = TRUE
         ELSE /\ rpc' = "page"
              /\ UNCHANGED <<pc, aborted, logged>>
    /\ UNCHANGED <<orchVars, countVars, exc, prompted, tasks, work, data_results,
                   label_results, results, faults, failed, requested, summary,
                   rp_data, rp_label, table, shown, pages, prompts,
                   confirmed, listVars, effectVars>>

----------------------------------------------------------------------------

Next ==
    \/ StartTask
    \/ UploadAssetCall
    \/ UploadAssetTask
    \/ UploadAssetReturns
    \/ UpdateLabelBegin
    \/ UpdateLabelDescribed
    \/ UpdateLabelTask
    \/ UpdateLabelReturns
    \/ DownloadWorkerFetch
    \/ DownloadWorkerPage
    \/ DownloadWorkerData
    \/ DownloadWorkerTask
    \/ DownloadWorkerLogged
    \/ PoolJoin
    \/ PoolRaise
    \/ UploadDataBegin
    \/ UploadDataLabels
    \/ UploadDataSummary
    \/ UploadLabelBegin
    \/ UploadLabelSummary
    \/ DownloadCountLabels
    \/ DownloadBegin
    \/ DownloadSummary
    \/ PrintErrorTableEnter
    \/ RenderPage
    \/ Prompt

Spec == Init /\ [][Next]_vars

----------------------------------------------------------------------------
(* Properties *)

\* ceil(a / b), defined by its meaning
CeilDiv(a, b) == CHOOSE q \in 0..a : q * b >= a /\ (q - 1) * b < a

AssetKeys == {imgs_path[i] : i \in DOMAIN imgs_path}
LabelKeys == {DataKeyOf(labels_path[i]) : i \in DOMAIN labels_path}
RemoteKeys == {DownloadKey(RemoteLabel(i)) : i \in 1..label_count}

\* The work items a summary line counts, by their position in the batch
ItemsOf(what) ==
    IF cmd = "download" THEN 1..label_count
    ELSE IF what = "data" THEN DOMAIN imgs_path ELSE DOMAIN labels_path

\* The key under which the task of the i-th of these items records an error
KeyOfItem(what, i) ==
    IF cmd = "download" THEN DownloadKey(RemoteLabel(i))
    ELSE IF what = "data" THEN imgs_path[i] ELSE DataKeyOf(labels_path[i])

FailedOf(what) == IF what = "data" THEN failed.data ELSE failed.label

\* The store a summary line is computed from
StoreOf(what) ==
    IF cmd = "download" THEN SubErrors(results, what)
    ELSE IF what = "data" THEN data_results ELSE label_results

\* C1: a failure of any step of a task function is recorded in the shared
\* store and never leaves the task: no task of a pool ends by raising, and no
\* exception of a task reaches the orchestrator.
C1_NoFailureLeavesATask ==
    /\ \A i \in DOMAIN tasks : tasks[i] # "raised"
    /\ exc # "task exception"

\* C2: once the pool has joined, a key is in the batch's store iff that
\* item's task failed, and every summary line reports as successes exactly
\* the items whose task succeeded: 0 <= success <= total and
\* success + len(store) = total.
C2_StoreIffFailed ==
    /\ (cmd = "upload_data" /\ pc \in {"data_done", "label_pool", "summary", "report", "done"})
          => DictKeys(data_results) = failed.data
    /\ (cmd \in {"upload_data", "upload_label"} /\ pc \in {"summary", "report", "done"})
          => DictKeys(label_results) = failed.label
    /\ (cmd = "download" /\ pc \in {"summary", "report", "done"})
          => /\ DictKeys(SubErrors(results, "data")) = failed.data
             /\ DictKeys(SubErrors(results, "label")) = failed.label
    /\ \A i \in DOMAIN summary :
          LET line == summary[i]
              items == ItemsOf(line.what)
          IN  /\ line.total = Cardinality(items)
              /\ line.errors = Len(StoreOf(line.what))
              /\ line.success = Cardinality({it \in items :
                     KeyOfItem(line.what, it) \notin FailedOf(line.what)})
              /\ 0 <= line.success /\ line.success <= line.total
              /\ line.success + line.errors = line.total

\* C3: in every batch the orchestrator leaves the pool only when each of the
\* N tasks has been started and has completed, never more than
\* NUM_MULTI_PROCESS tasks are in flight, and the summary is computed only
\* after that join.
C3_PoolContract ==
    /\ InFlight <= NUM_MULTI_PROCESS
    /\ pc \notin PoolPcs => \A i \in DOMAIN tasks : tasks[i] \in {"returned", "raised"}
    /\ summary # <<>> => AllReturned

\* C4: download with a probe result of 0 dispatches no page task and
\* completes: it prints 0 out of 0 at 100% for labels and for data, shows no
\* error row and raises nothing.
C4_EmptyDownloadCompletes ==
    (cmd = "download" /\ label_count = 0 /\ ~probe_failed
       /\ pc \in {"done", "raised", "returned"})
      => /\ pc = "done"
         /\ tasks = <<>>
         /\ summary = <<SummaryLine("labels", 0, 0, Hundred, 0),
                        SummaryLine("data", 0, 0, Hundred, 0)>>
         /\ shown = <<>>

\* C5: when the describe_label probe raises, _count_labels raises nothing
\* and returns 0, and download goes on as an empty batch: no exception leaves
\* download.
C5_ProbeFailureIsEmptyBatch ==
    probe_failed => /\ pc # "raised"
                    /\ label_count = 0

\* C6: whenever the store of a category is empty the ratio reported for it is
\* exactly 100%, whatever the total, and computing a ratio never divides by
\* zero.
C6_RatioWhenStoreEmpty ==
    /\ exc # "ZeroDivisionError"
    /\ \A i \in DOMAIN summary :
          summary[i].errors = 0 => Some(summary[i].ratio) = Hundred

\* C7: for a total > 0 download hands ceil(total / 10) page tasks to the
\* pool, the task of index i requests page i + 1, no page beyond the last and
\* no page twice; once download has left the pool every page 1..pageCount
\* has been requested exactly once.
C7_EveryPageRequestedOnce ==
    (cmd = "download" /\ label_count > 0) =>
        LET pageCount == CeilDiv(label_count, LABEL_DESCRIBE_PAGE_SIZE)
        IN  /\ pc = "download_pool" => Len(tasks) = pageCount
            /\ \A p \in BagToSet(requested) :
                  p \in 1..pageCount /\ CopiesIn(p, requested) = 1
            /\ pc \in {"summary", "report", "done", "raised"}
                  => \A p \in 1..pageCount : CopiesIn(p, requested) = 1

\* The rows of the merged table: those displayed, then those still held
AllRows == shown \o table

ArgKeys(arg) == IF arg.isdict THEN DictKeys(arg.d) ELSE {}

\* C8: the merged table has exactly one row per key of the union of the two
\* stores; a row holds the data sub-error iff its key is in the data store
\* and the label sub-error iff its key is in the label store, so no row has
\* neither, and disjoint stores give len(data) + len(label) rows.
C8_MergedTableIsUnion ==
    rpc \in {"page", "prompt", "done"} =>
        /\ {AllRows[i].k : i \in DOMAIN AllRows} = ArgKeys(rp_data) \cup ArgKeys(rp_label)
        /\ Len(AllRows) = Cardinality(ArgKeys(rp_data) \cup ArgKeys(rp_label))
        /\ ArgKeys(rp_data) \cap ArgKeys(rp_label) = {}
              => Len(AllRows) = Len(rp_data.d) + Len(rp_label.d)
        /\ \A i \in DOMAIN AllRows :
              LET key == AllRows[i].k
                  row == AllRows[i].v
              IN  /\ row.data = IF key \in ArgKeys(rp_data)
                                THEN Some(DictGet(rp_data.d, key)) ELSE None
                  /\ row.label = IF key \in ArgKeys(rp_label)
                                 THEN Some(DictGet(rp_label.d, key)) ELSE None
                  /\ row.data # None \/ row.label # None

\* C8, witness: a merged table, not yet displayed, with a row of both
\* sub-errors, a row of the data sub-error alone and a row of the label
\* sub-error alone.
C8_Witness ==
    /\ rpc = "page" /\ shown = <<>>
    /\ \E i, j, l \in DOMAIN table :
         /\ table[i].v.data # None /\ table[i].v.label # None
         /\ table[j].v.data # None /\ table[j].v.label = None
         /\ table[l].v.data = None /\ table[l].v.label # None

\* C9: no row is displayed twice; when the operator never quits, a table of
\* n >= 1 rows is displayed whole, in ceil(n / 10) pages of which all but the
\* last hold 10 rows, with ceil(n / 10) - 1 prompts; after q or Q nothing
\* more is displayed.
C9_EveryRowShownOnce ==
    LET merged == MergeResults(rp_data, rp_label)
        n == Len(merged)
    IN  /\ \A i, j \in DOMAIN shown : i # j => shown[i].k # shown[j].k
        /\ (rpc = "done" /\ n >= 1 /\ ~aborted)
              => /\ shown = merged
                 /\ Len(pages) = CeilDiv(n, ERROR_TABLE_PAGE_SIZE)
                 /\ \A p \in 1..(Len(pages) - 1) : pages[p] = ERROR_TABLE_PAGE_SIZE
                 /\ prompts = CeilDiv(n, ERROR_TABLE_PAGE_SIZE) - 1
        /\ aborted => /\ rpc = "done"
                      /\ Len(pages) = prompts
                      /\ Len(shown) = ERROR_TABLE_PAGE_SIZE * prompts

\* C10: every invocation of _print_error_table ends by printing the two log
\* locations: with an empty table, after the last page, and after q or Q.
C10_LogLocationsAlwaysPrinted ==
    rpc = "done" => logged

\* The message the last task stored under its identity key, if it stored
\* exactly that one record
Recorded(message) ==
    /\ last.set = {last.key}
    /\ DictHas(last.after, last.key)
    /\ DictGet(last.after, last.key) = message
    /\ Len(last.after) = Len(last.before) + 1

\* The last task left the store as it found it
StoreUntouched == last.set = {} /\ last.after = last.before

\* The last _update_label task found the file and was given a label by
\* describe_label
Described == last.kind = "label" /\ last.env.exists /\ last.env.describe = "label"

\* C11: when the local file exists, describe returns a matching label and the
\* file's result field is null, _update_label writes no ErrorRecord, issues
\* no update_label call and does not overwrite the local file.
C11_NullResultIsNoOp ==
    (Described /\ last.env.key_eq /\ last.env.ds_eq /\ last.env.local = "null")
      => /\ StoreUntouched
         /\ last.updates = 0
         /\ ~last.wrote

\* C11, witness: an _update_label task has ended whose file exists, whose
\* described label matches and whose local result is null.
C11_Witness ==
    /\ Described /\ last.env.key_eq /\ last.env.ds_eq
    /\ last.env.local = "null"
    /\ last.describes = 1

\* C12: when the local file parses but has no result field at all,
\* _update_label treats it as a no-op success exactly as for null: no
\* ErrorRecord is written, no update_label call is issued and the local file
\* is not rewritten.
C12_AbsentResultIsNoOp ==
    (Described /\ last.env.key_eq /\ last.env.ds_eq /\ last.env.local = "absent")
      => /\ StoreUntouched
         /\ last.updates = 0
         /\ ~last.wrote

\* C13: a described label is rejected with "Described label does not match
\* to upload.", and no update call is made, iff both its dataset and its
\* identity key differ from the requested ones; a label that differs in one
\* field or in none passes the check and the task goes on to the update
\* steps.
C13_RejectedIffBothDiffer ==
    Described =>
        LET both == ~last.env.key_eq /\ ~last.env.ds_eq
        IN  /\ Recorded("Described label does not match to upload.") <=> both
            /\ both => last.updates = 0 /\ ~last.wrote
            /\ (~both /\ last.env.build /\ last.env.local = "value")
                  => last.updates = 1
            /\ (~both /\ last.env = [LabelEnvOk EXCEPT !.key_eq = last.env.key_eq,
                                                       !.ds_eq = last.env.ds_eq])
                  => last.wrote /\ StoreUntouched

\* C13, witness: a task whose described label differs from the request in
\* exactly one of the two fields has sent its update.
C13_Witness ==
    /\ Described
    /\ last.env.key_eq # last.env.ds_eq
    /\ last.updates = 1 /\ last.wrote

\* C14: _upload_asset issues exactly one create_data call, failing or not; a
\* failing call writes exactly one ErrorRecord, under the descriptor's data
\* key, holding the failure's string form, and the task does not raise; a
\* successful call writes nothing.
C14_OneCreateOneRecord ==
    last.kind = "asset" =>
        /\ last.creates = 1
        /\ ~last.raised
        /\ ~last.env => /\ Recorded("create_data failed")
                        /\ \A k \in DictKeys(last.before) :
                              /\ DictHas(last.after, k)
                              /\ DictGet(last.after, k) = DictGet(last.before, k)
        /\ last.env => StoreUntouched

\* C14, witness: an _upload_asset task whose create_data call failed has
\* ended, after another one had already recorded its failure.
C14_Witness ==
    /\ last.kind = "asset" /\ ~last.env
    /\ Len(last.before) > 0

\* C15: for each label of a downloaded page both writes are attempted,
\* whatever the outcome of the other; the record under <dataset>/<key> holds
\* a label sub-error iff the label write failed and a data sub-error iff the
\* data fetch failed, and there is no record when both succeed; download's
\* aggregation puts the key into the label error set iff the label sub-error
\* is present and into the data error set iff the data sub-error is present.
C15_WritesAreIndependent ==
    /\ (last.kind = "page" /\ last.env.fetch_ok) =>
          \A j \in DOMAIN last.keys :
             LET k == last.keys[j]
             IN  /\ k \in last.label_tried /\ k \in last.data_tried
                 /\ DictHas(last.after, k)
                       <=> (k \in last.label_failed \/ k \in last.data_failed)
                 /\ DictHas(last.after, k) =>
                       /\ DictGet(last.after, k).label # None <=> k \in last.label_failed
                       /\ DictGet(last.after, k).data # None <=> k \in last.data_failed
    /\ (cmd = "download" /\ label_count # 0 /\ rpc # "idle") =>
          /\ ArgKeys(rp_label) =
                {k \in DictKeys(results) : DictGet(results, k).label # None}
          /\ ArgKeys(rp_data) =
                {k \in DictKeys(results) : DictGet(results, k).data # None}

\* Two entries of writers name the same key of the same store
SameKey(w1, w2) == w1[1] = w2[1] /\ w1[2] = w2[2]

\* C16: in every batch and under every interleaving no key of a store is
\* written by two different task invocations: distinct work items have
\* distinct identity keys (the data key of an asset, the label path without
\* its last extension, <dataset>/<data key> of each label of every page), so
\* the keys of a batch are as many as its items.
C16_OneWriterPerKey ==
    /\ \A w1, w2 \in writers : SameKey(w1, w2) => w1[3] = w2[3]
    /\ Cardinality({AssetImage(imgs_path[i]).data_key : i \in DOMAIN imgs_path})
          = Len(imgs_path)
    /\ Cardinality(LabelKeys) = Len(labels_path)
    /\ Cardinality(RemoteKeys) = label_count

NoneDone == [asset |-> 0, label |-> 0, page |-> 0]

\* The number of work items of the first batch of the invocation
FirstBatch ==
    CASE cmd = "upload_data" -> Len(imgs_path)
      [] cmd = "upload_label" -> Len(labels_path)
      [] cmd = "download" -> label_count
      [] OTHER -> 0

\* C17: when is_forced is false and the operator declines, no task is
\* dispatched, no create_data or update_label call is issued, no local file
\* is written and no summary is printed; when is_forced is true no prompt is
\* shown and the batch proceeds.
C17_Confirmable ==
    /\ confirmed = "no" =>
          /\ pc = "returned"
          /\ tasks = <<>> /\ done = NoneDone
          /\ calls.create_data = 0 /\ calls.update_label = 0
          /\ calls.written = 0
          /\ summary = <<>>
    /\ pc = "returned" => ~is_forced /\ confirmed = "no"
    /\ is_forced =>
          /\ prompted = 0 /\ confirmed = "none"
          /\ (pc \notin {"start", "counted"} /\ FirstBatch > 0) => tasks # <<>>

\* C17, witness: the operator has declined a batch that had work to do.
C17_Witness ==
    /\ confirmed = "no" /\ pc = "returned"
    /\ FirstBatch > 0

\* C18: _update_label keeps its step order on every path: a missing file is
\* recorded and no remote call is issued; no described label is recorded and
\* no update is issued; update_label is issued at most once and only after
\* the file exists, the described label passed the match check and the local
\* result is non-null; the file is overwritten only after update_label
\* returned; every early stop writes exactly one ErrorRecord under the
\* task's identity key.
C18_StepOrder ==
    last.kind = "label" =>
        LET e == last.env
            noop == Described /\ e.local = "null" /\ last.describes = 1
                      /\ last.set = {} /\ ~last.raised
        IN  /\ ~e.exists => /\ Recorded("Label json file is not existed.")
                            /\ last.describes = 0 /\ last.updates = 0
            /\ (e.exists /\ e.describe = "none")
                  => /\ Recorded("Label cannot be described.")
                     /\ last.updates = 0
            /\ last.updates <= 1
            /\ last.updates = 1 => /\ Described
                                   /\ e.key_eq \/ e.ds_eq
                                   /\ e.local = "value"
            /\ last.wrote => last.updates = 1 /\ e.update
            /\ (~last.wrote /\ ~noop)
                  => /\ last.set = {last.key}
                     /\ Len(last.after) = Len(last.before) + 1
                     /\ ~last.raised

\* C19: in upload_data with include_label no _update_label task, and so no
\* describe_label or update_label call, begins before every _upload_asset
\* task of the invocation has ended, and the summary is printed only after
\* both batches have joined.
C19_LabelBatchAfterAssetBatch ==
    cmd = "upload_data" =>
        /\ (pc = "label_pool" \/ done.label > 0 \/ calls.describe_label > 0
              \/ calls.update_label > 0)
              => /\ done.asset = Len(imgs_path)
                 /\ calls.create_data = Len(imgs_path)
        /\ pc \in {"start", "data_pool", "data_done"}
              => /\ done.label = 0
                 /\ calls.describe_label = 0 /\ calls.update_label = 0
        /\ summary # <<>>
              => /\ done.asset = Len(imgs_path)
                 /\ include_label => done.label = Len(labels_path)

\* C19, witness: upload_data with labels has printed its summary after an
\* asset batch wider than the pool and a label batch that issued its calls.
C19_Witness ==
    /\ cmd = "upload_data" /\ include_label
    /\ Len(imgs_path) > NUM_MULTI_PROCESS /\ Len(labels_path) > 0
    /\ calls.describe_label > 0 /\ calls.update_label > 0
    /\ summary # <<>>

\* The dict the orchestrator reads as element 0 of the list of a store
ElementZero(store) ==
    CASE store = "data" -> data_results
      [] store = "label" -> label_results
      [] store = "results" -> results

\* C20: all workers of a batch write into one and the same store: the
\* result handed to the task of item i is, for every i, the store the
\* orchestrator reads as element 0, so an error recorded by any task is
\* visible to the summary and the error table and none is lost.
C20_OneSharedStore ==
    /\ \A i \in DOMAIN refs : refs[i] = refs[1]
    /\ DOMAIN stray = {}
    /\ \A w \in writers : DictHas(ElementZero(w[1]), w[2])
    /\ \A i \in DOMAIN summary :
          summary[i].errors = Cardinality({w \in writers :
              w[1] = (IF cmd = "download" THEN "results" ELSE
                        IF summary[i].what = "data" THEN "data" ELSE "label")
              /\ (cmd = "download" =>
                    IF summary[i].what = "data"
                    THEN DictGet(results, w[2]).data # None
                    ELSE DictGet(results, w[2]).label # None)})

====
